---------------------------- MODULE Spec2Model ----------------------------
(***************************************************************************)
(* A model of transcribe.py: the input classifier (read_file), the audio   *)
(* extractor (extract_audio), the speech-to-text client (transcribe_audio),*)
(* the transcription cache (get_transcription_for_file) and the transcript *)
(* assembler and driver (main).                                            *)
(*                                                                         *)
(* Strings that the code inspects character by character (file names) are  *)
(* sequences of one-character strings.  File contents and produced texts   *)
(* are sequences of lexical units (Tok): JSON punctuation and scalars,     *)
(* literal text pieces, and bytes that are not valid UTF-8.  Numbers that  *)
(* stand for seconds (segment offsets) are integers counting thousandths   *)
(* of a second.                                                            *)
(***************************************************************************)
EXTENDS Integers, Sequences, FiniteSets, TLC

(***************************************************************************)
(* Bounds of the model.                                                    *)
(***************************************************************************)
MaxTime == 2
MaxRuns == 2

(***************************************************************************)
(* Generic helpers.                                                        *)
(***************************************************************************)
Min(a, b) == IF a <= b THEN a ELSE b

Take(s, n) == SubSeq(s, 1, Min(n, Len(s)))

Drop(s, n) == SubSeq(s, Min(n, Len(s)) + 1, Len(s))

StartsWith(s, p) == Len(s) >= Len(p) /\ SubSeq(s, 1, Len(p)) = p

EndsWith(s, p) == Len(s) >= Len(p) /\ SubSeq(s, Len(s) - Len(p) + 1, Len(s)) = p

Digits == {"0", "1", "2", "3", "4", "5", "6", "7", "8", "9"}

\* str.isdigit(): non-empty and every character a digit.
IsDigit(s) == Len(s) > 0 /\ \A i \in 1..Len(s) : s[i] \in Digits

DigitChar(d) == <<"0", "1", "2", "3", "4", "5", "6", "7", "8", "9">>[d + 1]

RECURSIVE Dec(_)
\* "%d" of a natural number, as characters.
Dec(n) == IF n < 10 THEN <<DigitChar(n)>> ELSE Append(Dec(n \div 10), DigitChar(n % 10))

RECURSIVE Pad(_, _)
\* Zero-padding on the left up to a width ("%02d", "%06d", "%04d").
Pad(s, w) == IF Len(s) >= w THEN s ELSE Pad(<<"0">> \o s, w)

(***************************************************************************)
(* Lexical units of file contents and of texts.                            *)
(***************************************************************************)
P(s) == [k |-> "p", s |-> s]

TNull == [k |-> "null"]

TNum(n) == [k |-> "num", n |-> n]

TStr(s) == [k |-> "str", s |-> s]

Chr(s) == [k |-> "chr", s |-> s]

\* A byte that no UTF-8 text contains.
Byte(n) == [k |-> "byte", n |-> n]

Chars(name) == [i \in 1..Len(name) |-> Chr(name[i])]

\* Decoding as UTF-8 succeeds iff no unit is an invalid byte.
Decodable(content) == \A i \in 1..Len(content) : content[i].k # "byte"

(***************************************************************************)
(* JSON values (Python objects built by json.load / response.json()).      *)
(* None is JNull.  A dict is an ordered sequence of <<key, value>> pairs   *)
(* with distinct keys.                                                     *)
(***************************************************************************)
JNull == [t |-> "null"]

JNum(n) == [t |-> "num", n |-> n]

JStr(s) == [t |-> "str", s |-> s]

JList(items) == [t |-> "list", items |-> items]

JDict(items) == [t |-> "dict", items |-> items]

None == JNull

HasKey(d, key) == d.t = "dict" /\ \E i \in 1..Len(d.items) : d.items[i][1] = key

Get(d, key) == d.items[CHOOSE i \in 1..Len(d.items) : d.items[i][1] = key][2]

\* d[key] = v on a dict: replaces in place, or appends.
Put(items, key, v) ==
    IF \E i \in 1..Len(items) : items[i][1] = key
    THEN [i \in 1..Len(items) |-> IF items[i][1] = key THEN <<key, v>> ELSE items[i]]
    ELSE Append(items, <<key, v>>)

\* Python truthiness of a JSON value.
Truthy(v) ==
    CASE v.t = "null" -> FALSE
      [] v.t = "num" -> v.n # 0
      [] v.t = "str" -> v.s # ""
      [] OTHER -> Len(v.items) > 0

RECURSIVE JsonDump(_)
RECURSIVE DumpElements(_, _)
RECURSIVE DumpMembers(_, _)
\* json.dump: the text of a value.
JsonDump(v) ==
    CASE v.t = "null" -> <<TNull>>
      [] v.t = "num" -> <<TNum(v.n)>>
      [] v.t = "str" -> <<TStr(v.s)>>
      [] v.t = "list" -> <<P("[")>> \o DumpElements(v.items, 1) \o <<P("]")>>
      [] OTHER -> <<P("{")>> \o DumpMembers(v.items, 1) \o <<P("}")>>

DumpElements(items, i) ==
    IF i > Len(items) THEN <<>>
    ELSE (IF i > 1 THEN <<P(",")>> ELSE <<>>) \o JsonDump(items[i]) \o DumpElements(items, i + 1)

DumpMembers(items, i) ==
    IF i > Len(items) THEN <<>>
    ELSE (IF i > 1 THEN <<P(",")>> ELSE <<>>) \o <<TStr(items[i][1]), P(":")>>
            \o JsonDump(items[i][2]) \o DumpMembers(items, i + 1)

ParseFail == [ok |-> FALSE]

ParseOk(v, rest) == [ok |-> TRUE, v |-> v, rest |-> rest]

RECURSIVE ParseValue(_)
RECURSIVE ParseElements(_, _)
RECURSIVE ParseMembers(_, _)
\* The JSON grammar, by recursive descent: one value at the head of toks.
ParseValue(toks) ==
    IF toks = <<>> THEN ParseFail
    ELSE LET h == Head(toks) IN
         CASE h.k = "null" -> ParseOk(JNull, Tail(toks))
           [] h.k = "num" -> ParseOk(JNum(h.n), Tail(toks))
           [] h.k = "str" -> ParseOk(JStr(h.s), Tail(toks))
           [] h = P("[") ->
                IF Len(toks) >= 2 /\ toks[2] = P("]")
                THEN ParseOk(JList(<<>>), Tail(Tail(toks)))
                ELSE ParseElements(Tail(toks), <<>>)
           [] h = P("{") ->
                IF Len(toks) >= 2 /\ toks[2] = P("}")
                THEN ParseOk(JDict(<<>>), Tail(Tail(toks)))
                ELSE ParseMembers(Tail(toks), <<>>)
           [] OTHER -> ParseFail

ParseElements(toks, acc) ==
    LET r == ParseValue(toks) IN
    IF ~r.ok \/ r.rest = <<>> THEN ParseFail
    ELSE IF Head(r.rest) = P(",") THEN ParseElements(Tail(r.rest), Append(acc, r.v))
    ELSE IF Head(r.rest) = P("]") THEN ParseOk(JList(Append(acc, r.v)), Tail(r.rest))
    ELSE ParseFail

ParseMembers(toks, acc) ==
    IF Len(toks) < 2 \/ toks[1].k # "str" \/ toks[2] # P(":") THEN ParseFail
    ELSE LET r == ParseValue(Tail(Tail(toks))) IN
         IF ~r.ok \/ r.rest = <<>> THEN ParseFail
         ELSE IF Head(r.rest) = P(",")
              THEN ParseMembers(Tail(r.rest), Put(acc, toks[1].s, r.v))
         ELSE IF Head(r.rest) = P("}")
              THEN ParseOk(JDict(Put(acc, toks[1].s, r.v)), Tail(r.rest))
         ELSE ParseFail

\* json.load on decoded text: the value, or JSONDecodeError.
JsonLoad(content) ==
    LET r == ParseValue(content) IN
    IF r.ok /\ r.rest = <<>> THEN [err |-> "", v |-> r.v]
    ELSE [err |-> "JSONDecodeError", v |-> None]

(***************************************************************************)
(* File names and paths (os.path).                                         *)
(***************************************************************************)
Slashes(p) == {i \in 1..Len(p) : p[i] = "/"}

LastSlash(p) == IF Slashes(p) = {} THEN 0 ELSE CHOOSE i \in Slashes(p) : \A j \in Slashes(p) : j <= i

\* os.path.basename
basename(p) == SubSeq(p, LastSlash(p) + 1, Len(p))

\* os.path.dirname (of a relative path)
dirname(p) == SubSeq(p, 1, LastSlash(p) - 1)

\* os.path.join of a directory and a name
join(d, n) == IF d = <<>> THEN n ELSE d \o <<"/">> \o n

\* The dots at which os.path.splitext may split: after a character that is not a dot.
SplitDots(n) == {i \in 1..Len(n) : n[i] = "." /\ \E j \in 1..(i - 1) : n[j] # "."}

\* os.path.splitext(n)[0] of a base name: the name up to its last dot (leading dots kept).
splitext_root(n) ==
    IF SplitDots(n) = {} THEN n
    ELSE SubSeq(n, 1, (CHOOSE i \in SplitDots(n) : \A j \in SplitDots(n) : j <= i) - 1)

DotJson == <<".", "j", "s", "o", "n">>

DotOpus == <<".", "o", "p", "u", "s">>

DotOgg == <<".", "o", "g", "g">>

\* The cache entry of an input: f".{base_basename}.json" beside the input.
cached_transcription(input_file) ==
    join(dirname(input_file), <<".">> \o splitext_root(basename(input_file)) \o DotJson)

\* The two audio files of extract_audio, in the working directory.
opus_file(input_file) == splitext_root(basename(input_file)) \o DotOpus

ogg_file(input_file) == splitext_root(basename(input_file)) \o DotOgg

(***************************************************************************)
(* read_file: the input classifier.  The result is the pair (transcription,*)
(* text), or an exception that leaves the function (err).                  *)
(***************************************************************************)
ReadPrefix == 1024

NoText == [some |-> FALSE]

Text(s) == [some |-> TRUE, v |-> s]

\* f.read(n) in text mode: the next n characters, UnicodeDecodeError on an invalid byte.
FileRead(content, n) ==
    IF Decodable(Take(content, n)) THEN [err |-> "", data |-> Take(content, n)]
    ELSE [err |-> "UnicodeDecodeError", data |-> <<>>]

\* A variant of Caught for `except ValueError`, which a JSONDecodeError is too.
Caught_ValueError(err) == err \in {"UnicodeDecodeError", "JSONDecodeError"}

\* The exceptions read_file catches.
Caught(err) == err = "UnicodeDecodeError"

\* The .json branch: json.load(f) reads the whole file, then parses it.
read_json(content) ==
    LET rd == FileRead(content, Len(content)) IN
    IF rd.err # "" THEN [err |-> rd.err, transcription |-> None, text |-> NoText]
    ELSE LET ld == JsonLoad(rd.data) IN
         [err |-> ld.err, transcription |-> ld.v, text |-> NoText]

\* The other branch: data = f.read(1024); data += f.read(); text = data.
read_text(content) ==
    LET a == FileRead(content, ReadPrefix)
        b == FileRead(Drop(content, ReadPrefix), Len(content))
    IN  IF a.err # "" THEN [err |-> a.err, transcription |-> None, text |-> NoText]
        ELSE IF b.err # "" THEN [err |-> b.err, transcription |-> None, text |-> NoText]
        ELSE [err |-> "", transcription |-> None, text |-> Text(a.data \o b.data)]

read_file(input_file, content) ==
    LET r == IF EndsWith(input_file, DotJson) THEN read_json(content) ELSE read_text(content)
    IN  IF Caught(r.err) THEN [err |-> "", transcription |-> None, text |-> NoText] ELSE r

(***************************************************************************)
(* The transcript assembler (main, lines 185-193).                         *)
(***************************************************************************)
\* datetime.fromtimestamp(ts).strftime('%Y-%m-%d'), for a clock on UTC: the civil
\* date of the day that holds second ts of the epoch.
FormatDate(ts) ==
    LET z == (ts \div 86400) + 719468
        era == z \div 146097
        doe == z - era * 146097
        yoe == (doe - doe \div 1460 + doe \div 36524 - doe \div 146096) \div 365
        doy == doe - (365 * yoe + yoe \div 4 - yoe \div 100)
        mp == (5 * doy + 2) \div 153
        d == doy - (153 * mp + 2) \div 5 + 1
        m == IF mp < 10 THEN mp + 3 ELSE mp - 9
        y == yoe + era * 400 + (IF m <= 2 THEN 1 ELSE 0)
    IN  Pad(Dec(y), 4) \o <<"-">> \o Pad(Dec(m), 2) \o <<"-">> \o Pad(Dec(d), 2)

\* The test of line 185 on the base name.
name_has_date(base_name) ==
    /\ StartsWith(base_name, <<"2", "0">>)
    /\ IsDigit(Take(base_name, 4))
    /\ Len(base_name) > 10

assumed_date(base_name, mtime) ==
    IF name_has_date(base_name) THEN Take(base_name, 10) ELSE FormatDate(mtime)

\* str(timedelta(seconds=s)) for s >= 0 given in thousandths of a second.
timedelta_str(ms) ==
    LET days == ms \div 86400000
        secs == (ms % 86400000) \div 1000
        us == (ms % 1000) * 1000
        hh == (secs \div 60) \div 60
        mm == (secs \div 60) % 60
        ss == secs % 60
        hms == Dec(hh) \o <<":">> \o Pad(Dec(mm), 2) \o <<":">> \o Pad(Dec(ss), 2)
        withDays == IF days # 0
                    THEN Dec(days) \o <<IF days = 1 THEN " day, " ELSE " days, ">> \o hms
                    ELSE hms
    IN  IF us # 0 THEN withDays \o <<".">> \o Pad(Dec(us), 6) ELSE withDays

\* str() of a scalar inside an f-string.
PyStr(v) ==
    CASE v.t = "str" -> <<Chr(v.s)>>
      [] v.t = "null" -> <<Chr("None")>>
      [] v.t = "num" -> Chars(Dec(v.n \div 1000))
                          \o (IF v.n % 1000 = 0 THEN <<>> ELSE Chars(<<".">> \o Pad(Dec(v.n % 1000), 3)))
      [] OTHER -> <<Chr("repr")>> \o JsonDump(v)

\* One line of the body: f"[{timedelta(seconds=seg['start'])}] {seg['text']}\n".
segment_line(seg) ==
    IF seg.t # "dict" THEN [err |-> "TypeError", line |-> <<>>]
    ELSE IF ~HasKey(seg, "start") THEN [err |-> "KeyError", line |-> <<>>]
    ELSE IF Get(seg, "start").t # "num" THEN [err |-> "TypeError", line |-> <<>>]
    ELSE IF ~HasKey(seg, "text") THEN [err |-> "KeyError", line |-> <<>>]
    ELSE [err |-> "",
          line |-> <<Chr("[")>> \o Chars(timedelta_str(Get(seg, "start").n)) \o <<Chr("]"), Chr(" ")>>
                     \o PyStr(Get(seg, "text")) \o <<Chr("\n")>>]

RECURSIVE segment_lines(_, _)
\* The loop of lines 192-193 from segment i on.
segment_lines(segs, i) ==
    IF i > Len(segs) THEN [err |-> "", lines |-> <<>>]
    ELSE LET l == segment_line(segs[i]) IN
         IF l.err # "" THEN [err |-> l.err, lines |-> <<>>]
         ELSE LET rest == segment_lines(segs, i + 1) IN
              IF rest.err # "" THEN rest ELSE [err |-> "", lines |-> l.line \o rest.lines]

header(base_name, date) ==
    <<Chr("Filename: ")>> \o Chars(base_name) \o <<Chr("\n"), Chr("Date: ")>>
        \o Chars(date) \o <<Chr("\n"), Chr("\n")>>

\* Lines 190-193: the text that goes on; the text of read_file when there is no
\* transcription.
assemble(base_name, date, transcription, text) ==
    IF ~Truthy(transcription) THEN [err |-> "", text |-> text]
    ELSE IF transcription.t # "dict" THEN [err |-> "TypeError", text |-> text]
    ELSE IF ~HasKey(transcription, "segments") THEN [err |-> "KeyError", text |-> text]
    ELSE IF Get(transcription, "segments").t # "list" THEN [err |-> "TypeError", text |-> text]
    ELSE LET b == segment_lines(Get(transcription, "segments").items, 1) IN
         IF b.err # "" THEN [err |-> b.err, text |-> text]
         ELSE [err |-> "", text |-> Text(header(base_name, date) \o b.lines)]

(***************************************************************************)
(* The file system, the inputs and the external collaborators.             *)
(***************************************************************************)
A_mp4 == <<"a", ".", "m", "p", "4">>

A_mov == <<"a", ".", "m", "o", "v">>

N_txt == <<"n", ".", "t", "x", "t">>

T_json == <<"t", ".", "j", "s", "o", "n">>

Inputs == {A_mp4, A_mov, N_txt, T_json}

Media == {A_mp4, A_mov}

Paths == Inputs \cup {cached_transcription(i) : i \in Media}
                \cup {opus_file(i) : i \in Media} \cup {ogg_file(i) : i \in Media}

\* src records the input a cache entry or an audio file was made from (<<>>: not
\* made by a run of the program); the code never reads it.
File(mtime, content, src) == [exists |-> TRUE, mtime |-> mtime, content |-> content, src |-> src]

Absent == [exists |-> FALSE, mtime |-> 0, content |-> <<>>, src |-> <<>>]

\* The recording held by a media file, as an opaque byte; 201 and 202 name two recordings.
Recording(input_file) == IF input_file = A_mp4 THEN Byte(201) ELSE Byte(202)

\* What the speech-to-text service hears in an audio stream.
Speech(audio) ==
    IF audio = <<Byte(201)>> THEN "speech of a.mp4"
    ELSE IF audio = <<Byte(202)>> THEN "speech of a.mov"
    ELSE "noise"

Segment(start, text) == JDict(<< <<"start", JNum(start)>>, <<"text", JStr(text)>> >>)

Transcription(segs) == JDict(<< <<"segments", JList(segs)>> >>)

\* The response bodies of the speech-to-text service for an audio stream: a verbose
\* transcription, a service error object, and a body that is not JSON.
BodyOk(audio) == JsonDump(Transcription(<<Segment(0, Speech(audio)), Segment(65000, "World")>>))

BodyError == JsonDump(JDict(<< <<"error", JDict(<< <<"message", JStr("bad request")>> >>)>> >>))

BodyHtml == <<Chr("<html>")>>

\* The responses of the service to the audio stream posted: a success with a
\* transcription, a success whose body is not JSON, and answers with a status that is
\* not a success, with or without a JSON body.
Responses(audio) ==
    { [status_code |-> 200, body |-> BodyOk(audio)],
      [status_code |-> 200, body |-> BodyHtml],
      [status_code |-> 304, body |-> BodyError],
      [status_code |-> 500, body |-> BodyError],
      [status_code |-> 500, body |-> BodyHtml] }

\* Exit status and error stream of a child process.
ChildResults == {[returncode |-> 0, stderr |-> ""], [returncode |-> 1, stderr |-> "failed"]}

NoError == [kind |-> "", command |-> "", detail |-> ""]

Error(kind, command, detail) == [kind |-> kind, command |-> command, detail |-> detail]

Call(op, path, rc) == [op |-> op, path |-> path, rc |-> rc]

(***************************************************************************)
(* extract_audio, get_audio_duration, transcribe_audio.                    *)
(***************************************************************************)
\* Line 26: the paths removed before the transcoder runs.
removed_paths(input_file) == <<opus_file(input_file), ogg_file(input_file)>>

\* Lines 30-39: the commands, each with the file it reads and the file it writes.
steps(input_file) ==
    << [command |-> "ffmpeg -acodec libopus", reads |-> input_file, writes |-> opus_file(input_file)],
       [command |-> "ffmpeg -acodec copy", reads |-> opus_file(input_file), writes |-> ogg_file(input_file)] >>

\* A variant of child_failed that takes only a negative status (a signal) for a failure.
child_failed_signal_only(returncode) == returncode < 0

\* Lines 43 and 51: the test on a child's exit status.
child_failed(returncode) == returncode # 0

\* Line 45: the path extract_audio returns.
extracted_file(input_file) == ogg_file(input_file)

\* Line 79, with Python's precedence of `and` over `or`.
logs_error(data, status_code) == (Truthy(data) /\ status_code < 200) \/ status_code >= 300

\* Line 80: data.get("error", {}).get("message", data); AttributeError when data, or
\* its "error", has no get.
error_message(data) ==
    IF data.t # "dict" THEN [err |-> "AttributeError", logged |-> FALSE]
    ELSE IF HasKey(data, "error") /\ Get(data, "error").t # "dict"
         THEN [err |-> "AttributeError", logged |-> FALSE]
    ELSE [err |-> "", logged |-> TRUE]

\* requests' Response.raise_for_status(): HTTPError for a 4xx or 5xx status.
raise_for_status(status_code) == 400 <= status_code /\ status_code < 600

\* Lines 75-82: what transcribe_audio does with the response.
transcribe_response(status_code, body) ==
    LET parsed == IF Decodable(body) THEN JsonLoad(body) ELSE [err |-> "JSONDecodeError", v |-> None]
        data == IF parsed.err = "" THEN parsed.v ELSE None
        log == IF logs_error(data, status_code) THEN error_message(data)
               ELSE [err |-> "", logged |-> FALSE]
    IN  IF log.err # "" THEN [err |-> log.err, data |-> None, logged |-> FALSE]
        ELSE IF raise_for_status(status_code) THEN [err |-> "HTTPError", data |-> None, logged |-> log.logged]
        ELSE [err |-> "", data |-> data, logged |-> log.logged]

(***************************************************************************)
(* get_transcription_for_file and main.                                    *)
(***************************************************************************)
\* Line 123.
cache_mtime(f) == IF f.exists THEN f.mtime ELSE 0

\* A variant of stale that also takes an entry as old as the input for stale.
stale_or_equal(skip_cache, c_mtime, input_mtime) == skip_cache \/ c_mtime <= input_mtime

\* Line 125.
stale(skip_cache, c_mtime, input_mtime) == skip_cache \/ c_mtime < input_mtime

\* Lines 133-134: open the cache entry and json.load it.
load_cache(f) ==
    IF ~f.exists THEN [err |-> "FileNotFoundError", v |-> None]
    ELSE IF ~Decodable(f.content) THEN [err |-> "UnicodeDecodeError", v |-> None]
    ELSE JsonLoad(f.content)

\* A variant of needs_transcription that forgets the text.
needs_transcription_no_text(transcription, text) == transcription = None

\* Line 182.
needs_transcription(transcription, text) == ~text.some /\ transcription = None

\* Line 195.
only_prints(transcription_only) == transcription_only

(***************************************************************************)
(* State.                                                                  *)
(*   files, now        the file system and the clock reading               *)
(*   pc, args          where the run of main is, and its arguments         *)
(*   transcription, text, skip_cache, branch, step, audio_file, response   *)
(*                     locals of main, get_transcription_for_file,         *)
(*                     extract_audio and transcribe_audio                  *)
(*   err               the exception that ended the run                    *)
(*   calls, start, returned, prev, runs                                    *)
(*                     history: the calls of this run, the files when it   *)
(*                     began, what get_transcription_for_file returned,    *)
(*                     the run before, the number of runs                  *)
(*   fn, arg, res      a single call of one function on given arguments    *)
(***************************************************************************)
VARIABLES files, now, pc, args, transcription, text, skip_cache, branch, step,
          audio_file, response, err, calls, start, returned, prev, runs, fn, arg, res

vars == <<files, now, pc, args, transcription, text, skip_cache, branch, step,
          audio_file, response, err, calls, start, returned, prev, runs, fn, arg, res>>

locals == <<transcription, text, skip_cache, branch, step, audio_file, response>>

\* No call of a single function has been made yet.
Pending == [done |-> FALSE]

NoArgs == [input_file |-> <<>>, force |-> FALSE, transcription_only |-> FALSE]

NoResponse == [status_code |-> 0, body |-> <<>>]

NotReturned == [some |-> FALSE, v |-> None, src |-> <<>>]

NoPrev == [valid |-> FALSE, input_file |-> <<>>, called |-> FALSE, skip_cache |-> FALSE,
           returned |-> NotReturned]

\* A cache entry found at the start: a transcription cached earlier, or a damaged file.
OldCache == {JsonDump(Transcription(<<Segment(0, "cached earlier")>>)), <<P("{"), TStr("segments")>>}

InitFiles ==
    {[p \in Paths |->
        CASE p = A_mp4 -> File(m, <<Recording(A_mp4)>>, <<>>)
          [] p = A_mov -> File(1, <<Recording(A_mov)>>, <<>>)
          [] p = N_txt -> File(1, <<Chr("Hello World!")>>, <<>>)
          [] p = T_json -> File(1, JsonDump(Transcription(<<Segment(0, "Hello")>>)), <<>>)
          [] p = cached_transcription(A_mp4) -> c
          [] OTHER -> Absent]
      : m \in 0..MaxTime,
        c \in {Absent} \cup {File(1, cc, <<>>) : cc \in OldCache}}

Idle ==
    /\ pc = "idle"
    /\ args = NoArgs
    /\ transcription = None
    /\ text = NoText
    /\ skip_cache = FALSE
    /\ branch = "none"
    /\ step = 0
    /\ audio_file = <<>>
    /\ response = NoResponse
    /\ err = NoError
    /\ calls = <<>>
    /\ returned = NotReturned
    /\ prev = NoPrev
    /\ runs = 0

Init ==
    /\ files \in InitFiles
    /\ start = files
    /\ now = 0
    /\ Idle
    /\ fn = ""
    /\ arg = <<>>
    /\ res = Pending

Fail(kind, command, detail) ==
    /\ pc' = "failed"
    /\ err' = Error(kind, command, detail)

(***************************************************************************)
(* main, lines 177-183: the arguments, read_file, and the call of          *)
(* get_transcription_for_file.                                             *)
(***************************************************************************)
MainBegin(input_file, force, transcription_only) ==
    /\ pc = "idle"
    /\ runs < MaxRuns
    /\ files[input_file].exists
    /\ LET r == read_file(input_file, files[input_file].content)
           c == <<Call("read_file", input_file, 0)>>
       IN  /\ args' = [input_file |-> input_file, force |-> force,
                       transcription_only |-> transcription_only]
           /\ start' = files
           /\ transcription' = r.transcription
           /\ text' = r.text
           /\ IF r.err # ""
              THEN Fail(r.err, "read_file", "") /\ calls' = c /\ UNCHANGED skip_cache
              ELSE /\ err' = NoError
                   /\ IF needs_transcription(r.transcription, r.text)
                      THEN /\ pc' = "gtff"
                           /\ skip_cache' = force
                           /\ calls' = Append(c, Call("get_transcription_for_file", input_file, 0))
                      ELSE /\ pc' = "assemble"
                           /\ calls' = c
                           /\ UNCHANGED skip_cache
    /\ UNCHANGED <<files, now, branch, step, audio_file, response, returned, prev, runs, fn, arg, res>>

(***************************************************************************)
(* get_transcription_for_file, lines 118-125 and 131-135: the decision and *)
(* the load of the cache entry.                                            *)
(***************************************************************************)
Gtff ==
    /\ pc = "gtff"
    /\ LET cache == cached_transcription(args.input_file)
           input_mtime == files[args.input_file].mtime
           c_mtime == cache_mtime(files[cache])
       IN  IF stale(skip_cache, c_mtime, input_mtime)
           THEN /\ branch' = "stale"
                /\ pc' = "extract"
                /\ UNCHANGED <<transcription, err, calls, returned>>
           ELSE /\ branch' = "fresh"
                /\ calls' = Append(calls, Call("load cache", cache, 0))
                /\ LET l == load_cache(files[cache]) IN
                   IF l.err # ""
                   THEN Fail(l.err, "load cache", "") /\ UNCHANGED <<transcription, returned>>
                   ELSE /\ transcription' = l.v
                        /\ returned' = [some |-> TRUE, v |-> l.v, src |-> files[cache].src]
                        /\ pc' = "assemble"
                        /\ UNCHANGED err
    /\ UNCHANGED <<files, now, args, text, skip_cache, step, audio_file, response, start, prev,
                   runs, fn, arg, res>>

(***************************************************************************)
(* extract_audio, lines 23-28: the stale outputs are removed.              *)
(***************************************************************************)
ExtractRemove ==
    /\ pc = "extract"
    /\ LET rm == SelectSeq(removed_paths(args.input_file), LAMBDA p : files[p].exists) IN
       /\ files' = [p \in Paths |-> IF \E i \in 1..Len(rm) : rm[i] = p THEN Absent ELSE files[p]]
       /\ calls' = calls \o [i \in 1..Len(rm) |-> Call("remove", rm[i], 0)]
    /\ step' = 1
    /\ pc' = "steps"
    /\ UNCHANGED <<now, args, transcription, text, skip_cache, branch, audio_file, response, err,
                   start, returned, prev, runs, fn, arg, res>>

(***************************************************************************)
(* extract_audio, lines 40-45: one pass of the loop over the steps.  The   *)
(* child exits 0 only if the file it reads is there, and then has written  *)
(* its output.                                                             *)
(***************************************************************************)
ExtractStep(result) ==
    /\ pc = "steps"
    /\ LET s == steps(args.input_file)[step] IN
       /\ result.returncode = 0 => files[s.reads].exists
       /\ files' = [files EXCEPT ![s.writes] =
                        IF result.returncode = 0 THEN File(now, files[s.reads].content, args.input_file)
                        ELSE @]
       /\ calls' = Append(calls, Call(s.command, s.writes, result.returncode))
       /\ IF child_failed(result.returncode)
          THEN Fail("ChildProcessError", s.command, result.stderr) /\ UNCHANGED <<step, audio_file>>
          ELSE /\ UNCHANGED err
               /\ IF step < Len(steps(args.input_file))
                  THEN step' = step + 1 /\ pc' = "steps" /\ UNCHANGED audio_file
                  ELSE /\ audio_file' = extracted_file(args.input_file)
                       /\ pc' = "transcribe"
                       /\ UNCHANGED step
    /\ UNCHANGED <<now, args, transcription, text, skip_cache, branch, response, start, returned,
                   prev, runs, fn, arg, res>>

(***************************************************************************)
(* transcribe_audio, lines 57-58, with get_audio_duration (lines 48-53):   *)
(* the size of the audio file and the duration probe.                      *)
(***************************************************************************)
TranscribeProbe(result, numeric) ==
    /\ pc = "transcribe"
    /\ result.returncode # 0 => numeric
    /\ IF ~files[audio_file].exists
       THEN Fail("FileNotFoundError", "getsize", "") /\ UNCHANGED calls
       ELSE /\ calls' = Append(calls, Call("ffprobe", audio_file, result.returncode))
            /\ IF child_failed(result.returncode)
               THEN Fail("ChildProcessError", "ffprobe", result.stderr)
               ELSE IF ~numeric THEN Fail("ValueError", "ffprobe", "")
               ELSE pc' = "post" /\ UNCHANGED err
    /\ UNCHANGED <<files, now, args, transcription, text, skip_cache, branch, step, audio_file,
                   response, start, returned, prev, runs, fn, arg, res>>

(***************************************************************************)
(* transcribe_audio, lines 59-82: the request and what is made of the      *)
(* response.  connected = FALSE: requests.post raises (no response).       *)
(***************************************************************************)
TranscribePost(connected, resp) ==
    /\ pc = "post"
    /\ LET post == Call("POST audio/transcriptions", audio_file, 0) IN
       IF ~connected
       THEN /\ Fail("ConnectionError", "POST audio/transcriptions", "")
            /\ calls' = Append(calls, post)
            /\ UNCHANGED <<transcription, response>>
       ELSE LET r == transcribe_response(resp.status_code, resp.body) IN
            /\ response' = resp
            /\ calls' = Append(calls, post)
                          \o (IF r.logged THEN <<Call("LOG.error", <<>>, 0)>> ELSE <<>>)
            /\ IF r.err # ""
               THEN Fail(r.err, "POST audio/transcriptions", "") /\ UNCHANGED transcription
               ELSE /\ transcription' = r.data
                    /\ pc' = "cache"
                    /\ UNCHANGED err
    /\ UNCHANGED <<files, now, args, text, skip_cache, branch, step, audio_file, start, returned,
                   prev, runs, fn, arg, res>>

(***************************************************************************)
(* get_transcription_for_file, lines 128-130 and 135: the cache entry is   *)
(* written; it gets the clock's reading t, not before the last reading.    *)
(***************************************************************************)
CacheWrite(t) ==
    /\ pc = "cache"
    /\ t >= now
    /\ LET cache == cached_transcription(args.input_file) IN
       /\ files' = [files EXCEPT ![cache] = File(t, JsonDump(transcription), args.input_file)]
       /\ calls' = Append(calls, Call("write cache", cache, 0))
    /\ now' = t
    /\ returned' = [some |-> TRUE, v |-> transcription, src |-> args.input_file]
    /\ pc' = "assemble"
    /\ response' = NoResponse
    /\ UNCHANGED <<args, transcription, text, skip_cache, branch, step, audio_file, err,
                   start, prev, runs, fn, arg, res>>

(***************************************************************************)
(* main, lines 185-193: the date and the assembled text.                   *)
(***************************************************************************)
MainAssemble ==
    /\ pc = "assemble"
    /\ LET base_name == basename(args.input_file)
           date == assumed_date(base_name, files[args.input_file].mtime)
           a == assemble(base_name, date, transcription, text)
       IN  IF a.err # ""
           THEN Fail(a.err, "assemble", "") /\ UNCHANGED text
           ELSE text' = a.text /\ pc' = "output" /\ UNCHANGED err
    /\ UNCHANGED <<files, now, args, transcription, skip_cache, branch, step, audio_file, response,
                   calls, start, returned, prev, runs, fn, arg, res>>

(***************************************************************************)
(* main, lines 195-199: the transcript is printed, or summarized (ok: the  *)
(* chat service answers with a success status) and the summary printed.    *)
(***************************************************************************)
MainOutput(ok) ==
    /\ pc = "output"
    /\ IF only_prints(args.transcription_only)
       THEN /\ ok
            /\ calls' = Append(calls, Call("print", <<>>, 0))
            /\ pc' = "done"
            /\ UNCHANGED err
       ELSE IF ok
            THEN /\ calls' = calls \o <<Call("POST chat/completions", <<>>, 0), Call("print", <<>>, 0)>>
                 /\ pc' = "done"
                 /\ UNCHANGED err
            ELSE /\ calls' = Append(calls, Call("POST chat/completions", <<>>, 0))
                 /\ Fail("HTTPError", "POST chat/completions", "")
    /\ UNCHANGED <<files, now, args, transcription, text, skip_cache, branch, step, audio_file,
                   response, start, returned, prev, runs, fn, arg, res>>

(***************************************************************************)
(* The process ends (lines 202-206); the next invocation starts afresh.    *)
(***************************************************************************)
MainExit ==
    /\ pc \in {"done", "failed"}
    /\ prev' = [valid |-> TRUE, input_file |-> args.input_file,
                called |-> \E i \in 1..Len(calls) : calls[i].op = "get_transcription_for_file",
                skip_cache |-> skip_cache, returned |-> returned]
    /\ runs' = runs + 1
    /\ pc' = "idle"
    /\ args' = NoArgs
    /\ transcription' = None
    /\ text' = NoText
    /\ skip_cache' = FALSE
    /\ branch' = "none"
    /\ step' = 0
    /\ audio_file' = <<>>
    /\ response' = NoResponse
    /\ err' = NoError
    /\ calls' = <<>>
    /\ returned' = NotReturned
    /\ start' = files
    /\ UNCHANGED <<files, now, fn, arg, res>>

\* What the service may answer for the audio file that is posted.
PostResponses == IF pc = "post" THEN Responses(files[audio_file].content) ELSE {}

Next ==
    \/ \E i \in Inputs, f \in BOOLEAN, t \in BOOLEAN : MainBegin(i, f, t)
    \/ Gtff
    \/ ExtractRemove
    \/ \E r \in ChildResults : ExtractStep(r)
    \/ \E r \in ChildResults, numeric \in BOOLEAN : TranscribeProbe(r, numeric)
    \/ \E resp \in PostResponses : TranscribePost(TRUE, resp)
    \/ TranscribePost(FALSE, NoResponse)
    \/ \E t \in 0..MaxTime : CacheWrite(t)
    \/ MainAssemble
    \/ \E ok \in BOOLEAN : MainOutput(ok)
    \/ MainExit

Spec == Init /\ [][Next]_vars

(***************************************************************************)
(* read_file on its own: one call on a given name and content.             *)
(***************************************************************************)
NoFiles == [p \in Paths |-> Absent]

ReadNames ==
    { T_json, N_txt, A_mp4, <<"j", "s", "o", "n">>, <<"d", "/", "x", ".", "j", "s", "o", "n">> }

\* Values whose JSON text a file may hold.
ReadValues ==
    { Transcription(<<Segment(0, "Hello")>>), Transcription(<<>>), JDict(<<>>), JList(<<>>),
      JNum(0), JStr(""), JNull }

\* Text that is not JSON.
ReadMalformed ==
    { <<>>, <<Chr("Hello World!")>>, <<P("{"), TStr("segments"), P(":")>>,
      <<P("{"), P("}"), Chr("x")>>, <<P("["), TNum(1), P(","), P("]")>> }

\* Contents that are not UTF-8 text: an invalid byte at the start, after some text,
\* after a whole JSON value, and just past the prefix that is read first.
ReadBinary ==
    { <<Byte(255)>>, <<Chr("x"), Byte(255)>>, <<P("{"), P("}"), Byte(255)>>,
      [i \in 1..(ReadPrefix + 1) |-> IF i <= ReadPrefix THEN Chr("x") ELSE Byte(255)] }

ReadLong == [i \in 1..(ReadPrefix + 1) |-> Chr("x")]

ReadContents == {JsonDump(v) : v \in ReadValues} \cup ReadMalformed \cup ReadBinary \cup {ReadLong}

InitReadFile ==
    /\ files = NoFiles
    /\ start = files
    /\ now = 0
    /\ Idle
    /\ fn = "read_file"
    /\ arg \in [input_file : ReadNames, content : ReadContents]
    /\ res = Pending

ReadFileCall ==
    /\ fn = "read_file"
    /\ ~res.done
    /\ res' = [done |-> TRUE, r |-> read_file(arg.input_file, arg.content)]
    /\ UNCHANGED <<files, now, pc, args, locals, err, calls, start, returned, prev, runs, fn, arg>>

SpecReadFile == InitReadFile /\ [][ReadFileCall]_vars

(***************************************************************************)
(* The assembler on its own: lines 185-193 on a given base name,           *)
(* modification time and transcription.                                    *)
(***************************************************************************)
Name_dated == <<"2", "0", "2", "4", "-", "0", "1", "-", "0", "1", "_", "0", "1", "-", "0", "1",
                "-", "0", "1", ".", "m", "p", "4">>

Name_clip == <<"c", "l", "i", "p", ".", "m", "p", "4">>

Name_year == <<"2", "0", "2", "4", "_", "s", "u", "m", "m", "e", "r", ".", "m", "p", "4">>

Name_1999 == <<"1", "9", "9", "9", "-", "1", "2", "-", "3", "1", "_", "x", ".", "m", "p", "4">>

Name_bare == <<"2", "0", "2", "4", "-", "0", "1", "-", "0", "1">>

AsmNames == {Name_dated, Name_clip, Name_year, Name_1999, Name_bare}

\* Modification times: the epoch, 2024-01-01 00:00:00 and 2024-12-31 23:59:59.
AsmTimes == {0, 1704067200, 1735689599}

\* Segment sequences with non-negative, non-decreasing start offsets.
AsmSegments ==
    { <<>>,
      <<Segment(0, "Hello"), Segment(65000, "World")>>,
      <<Segment(1500, "Hi")>>,
      <<Segment(3600000, "Hour"), Segment(86400000, "Day")>>,
      <<Segment(0, "a"), Segment(0, "b"), Segment(7265000, "c")>> }

InitAssemble ==
    /\ files = NoFiles
    /\ start = files
    /\ now = 0
    /\ Idle
    /\ fn = "assemble"
    /\ arg \in [base_name : AsmNames, mtime : AsmTimes, segments : AsmSegments]
    /\ res = Pending

AssembleCall ==
    /\ fn = "assemble"
    /\ ~res.done
    /\ LET date == assumed_date(arg.base_name, arg.mtime) IN
       res' = [done |-> TRUE, date |-> date,
               a |-> assemble(arg.base_name, date, Transcription(arg.segments), NoText)]
    /\ UNCHANGED <<files, now, pc, args, locals, err, calls, start, returned, prev, runs, fn, arg>>

SpecAssemble == InitAssemble /\ [][AssembleCall]_vars

(***************************************************************************)
(* Properties.                                                             *)
(***************************************************************************)
Count(op) == Cardinality({i \in 1..Len(calls) : calls[i].op = op})

TranscoderOps == {"ffmpeg -acodec libopus", "ffmpeg -acodec copy"}

ChildOps == TranscoderOps \cup {"ffprobe"}

ExternalOps == ChildOps \cup {"POST audio/transcriptions", "POST chat/completions"}

\* The cache entry of the run's input, now and when the run began.
CacheNow == files[cached_transcription(args.input_file)]

CacheAtStart == start[cached_transcription(args.input_file)]

\* C1: once get_transcription_for_file has decided, it took the stale branch (Extractor,
\* Speech-to-Text Client, cache overwrite) if and only if skip_cache is set, or the cache
\* entry was absent, or the entry's modification time was strictly older than the
\* input's; on the fresh branch neither the Extractor nor the Client is invoked.
C1_StaleIffSkipAbsentOrOlder ==
    branch # "none" =>
        /\ (branch = "stale") <=>
               (skip_cache \/ ~CacheAtStart.exists \/ CacheAtStart.mtime < start[args.input_file].mtime)
        /\ branch = "fresh" => \A op \in ExternalOps \ {"POST chat/completions"} : Count(op) = 0

\* A call with skip_cache=false is under way (it has decided) right after a call with
\* skip_cache=false on the same input that returned a Transcription.
SecondCall ==
    /\ prev.valid /\ prev.called /\ ~prev.skip_cache /\ prev.returned.some
    /\ HasKey(prev.returned.v, "segments")
    /\ prev.input_file = args.input_file
    /\ branch # "none" /\ ~skip_cache

\* C2 as stated: the second of two successive calls with skip_cache=false on one input
\* invokes neither the Extractor nor the Speech-to-Text Client and returns a
\* Transcription equal to the one the first call returned.
C2_SecondCallReusesFirst ==
    SecondCall =>
        /\ branch = "fresh"
        /\ \A op \in ChildOps \cup {"POST audio/transcriptions"} : Count(op) = 0
        /\ returned.some /\ returned.v = prev.returned.v

\* C2 amended: the same, provided the cache entry the first call left is not older than
\* the input (the input's modification time is not later than the clock's reading when
\* the entry was written).
C2_SecondCallReusesFreshEntry ==
    (SecondCall /\ start[args.input_file].mtime <= CacheAtStart.mtime) =>
        /\ branch = "fresh"
        /\ \A op \in ChildOps \cup {"POST audio/transcriptions"} : Count(op) = 0
        /\ returned.some /\ returned.v = prev.returned.v

\* The second call has loaded what the first call transcribed and wrote.
C2_Witness ==
    /\ SecondCall
    /\ prev.returned.src = args.input_file
    /\ start[args.input_file].mtime <= CacheAtStart.mtime
    /\ branch = "fresh"
    /\ returned.v = Transcription(<<Segment(0, Speech(<<Recording(args.input_file)>>)),
                                   Segment(65000, "World")>>)

\* C3: a child process (transcoder step or duration probe) that exits with a non-zero
\* status is the last call of the run: the run has failed with a ChildProcessError that
\* carries the command and the child's error output, the cache entry is as it was when
\* the run began, nothing was returned and no text produced; and no external call is
\* made more than once in a run.
C3_ChildFailureAborts ==
    /\ \A i \in 1..Len(calls) :
          (calls[i].op \in ChildOps /\ calls[i].rc # 0) =>
              /\ i = Len(calls)
              /\ pc = "failed"
              /\ err.kind = "ChildProcessError"
              /\ err.command = calls[i].op
              /\ \E r \in ChildResults : r.returncode = calls[i].rc /\ err.detail = r.stderr
              /\ CacheNow = CacheAtStart
              /\ ~returned.some
              /\ text = NoText
    /\ \A op \in ExternalOps : Count(op) <= 1

\* A run that the duration probe has failed, with a cache entry present before it.
C3_Witness ==
    /\ pc = "failed"
    /\ err = Error("ChildProcessError", "ffprobe", "failed")
    /\ CacheAtStart.exists
    /\ Count("ffmpeg -acodec copy") = 1

JsonNames == {T_json, <<"d", "/", "x", ".", "j", "s", "o", "n">>}

\* C4 as stated: read_file always produces one of three outcomes; a .json name whose
\* content parses gives a non-null Transcription and null text; every other decodable
\* input gives null Transcription and the whole content as text; both are null only
\* for undecodable content.
C4_ThreeOutcomesAsStated ==
    res.done =>
        LET r == res.r
            structured == arg.input_file \in JsonNames
                            /\ \E v \in ReadValues : arg.content = JsonDump(v)
        IN  /\ r.err = ""
            /\ structured => (r.transcription # None /\ ~r.text.some)
            /\ (~structured /\ arg.content \notin ReadBinary) =>
                   (r.transcription = None /\ r.text = Text(arg.content))
            /\ (r.transcription = None /\ ~r.text.some) => arg.content \in ReadBinary

\* C4 amended: undecodable content gives (null, null); a name not ending in .json with
\* decodable content gives null Transcription and the whole content as text; a .json
\* name whose text is the JSON of a value gives that value as the Transcription (null
\* exactly when the text is the literal null) and null text; a .json name whose text
\* is not JSON makes read_file fail with JSONDecodeError.
C4_ReadFileOutcomes ==
    res.done =>
        LET r == res.r
            json == arg.input_file \in JsonNames
        IN  /\ arg.content \in ReadBinary =>
                   r = [err |-> "", transcription |-> None, text |-> NoText]
            /\ (json /\ arg.content \in ReadMalformed \cup {ReadLong}) => r.err = "JSONDecodeError"
            /\ \A v \in ReadValues :
                  (json /\ arg.content = JsonDump(v)) =>
                      /\ r = [err |-> "", transcription |-> v, text |-> NoText]
                      /\ (r.transcription = None) <=> (arg.content = <<TNull>>)
            /\ (~json /\ arg.content \notin ReadBinary) =>
                   r = [err |-> "", transcription |-> None, text |-> Text(arg.content)]

\* read_file has returned the transcription held by t.json.
C4_Witness ==
    /\ res.done
    /\ arg.input_file = T_json
    /\ arg.content = JsonDump(Transcription(<<Segment(0, "Hello")>>))
    /\ res.r.transcription = Transcription(<<Segment(0, "Hello")>>)

\* The classifier's answer for the run's input.
Classified == read_file(args.input_file, start[args.input_file].content)

Neither == Classified.err = "" /\ Classified.transcription = None /\ ~Classified.text.some

\* Position of the first call of op in this run (0: none).
First(op) == IF Count(op) = 0 THEN 0 ELSE CHOOSE i \in 1..Len(calls) :
                 calls[i].op = op /\ \A j \in 1..(i - 1) : calls[j].op # op

\* C5: in a run of main the classifier is called once, first; get_transcription_for_file
\* is called (once, with skip_cache = force) if and only if the classifier returned
\* neither a Transcription nor text, and only then are extraction and speech-to-text
\* reached; summarization is called at most once, after everything else but the
\* print, never with the transcription-only flag, and once in every run that completes
\* without that flag.
C5_MainRouting ==
    pc # "idle" =>
        /\ Count("read_file") = 1 /\ calls[1].op = "read_file"
        /\ Count("get_transcription_for_file") <= 1
        /\ (Count("get_transcription_for_file") = 1) <=> Neither
        /\ Count("get_transcription_for_file") = 1 =>
               (skip_cache = args.force /\ calls[2] = Call("get_transcription_for_file", args.input_file, 0))
        /\ ~Neither => /\ \A op \in ChildOps \cup {"POST audio/transcriptions", "remove", "write cache",
                                                  "load cache"} : Count(op) = 0
                       /\ files = start
        /\ Count("POST chat/completions") <= 1
        /\ args.transcription_only => Count("POST chat/completions") = 0
        /\ Count("POST chat/completions") = 1 =>
               /\ pc \in {"done", "failed"}
               /\ \A i \in 1..Len(calls) :
                     i > First("POST chat/completions") => calls[i].op = "print"
               /\ Truthy(transcription) => text.some
        /\ pc = "done" =>
               Count("POST chat/completions") = (IF args.transcription_only THEN 0 ELSE 1)

\* A completed run on a media file: classified, transcribed and summarized, once each.
C5_Witness ==
    /\ pc = "done"
    /\ args.input_file = A_mp4
    /\ ~args.transcription_only
    /\ Count("read_file") = 1
    /\ Count("get_transcription_for_file") = 1
    /\ Count("POST audio/transcriptions") = 1
    /\ Count("POST chat/completions") = 1

\* C6: when extract_audio has returned, it has invoked the transcoder exactly once and
\* removed at most one file, and every path it removed or wrote is the one path it
\* returns.
C6_OneAudioPath ==
    pc = "transcribe" =>
        /\ Cardinality({i \in 1..Len(calls) : calls[i].op \in TranscoderOps}) = 1
        /\ Count("remove") <= 1
        /\ \A i \in 1..Len(calls) :
              calls[i].op \in TranscoderOps \cup {"remove"} => calls[i].path = audio_file

Is2xx(status_code) == 200 <= status_code /\ status_code < 300

BodyParses(body) == Decodable(body) /\ JsonLoad(body).err = ""

\* C7: transcribe_audio returns only for a 2xx response whose body parsed to a
\* Transcription with segments; for a non-2xx response it fails with the HTTP-status
\* error; an unparsed body always fails the call and is never written to the cache.
C7_OnlyParsedSuccessReturns ==
    /\ pc = "cache" =>
          /\ Is2xx(response.status_code)
          /\ BodyParses(response.body)
          /\ HasKey(transcription, "segments")
    /\ (pc = "failed" /\ err.command = "POST audio/transcriptions" /\ response # NoResponse) =>
          /\ ~Is2xx(response.status_code) => err.kind = "HTTPError"
          /\ ~BodyParses(response.body) => err.kind = "HTTPError"
    /\ \A i \in Media :
          files[cached_transcription(i)].src # <<>> =>
              files[cached_transcription(i)].content # JsonDump(None)

DatePattern(name) ==
    /\ Len(name) >= 10
    /\ \A i \in {1, 2, 3, 4, 6, 7, 9, 10} : name[i] \in Digits
    /\ name[5] = "-"
    /\ name[8] = "-"

\* C8: the date of the header is the first ten characters of the base name if and only
\* if they match YYYY-MM-DD and the name is longer than ten characters; otherwise it is
\* the modification time formatted as YYYY-MM-DD.
C8_DateFromNameIffPattern ==
    res.done =>
        res.date = IF DatePattern(arg.base_name) /\ Len(arg.base_name) > 10
                   THEN SubSeq(arg.base_name, 1, 10)
                   ELSE FormatDate(arg.mtime)

\* H:MM:SS of an offset given in thousandths of a second: elapsed hours, minutes, seconds.
ElapsedHMS(ms) ==
    LET secs == ms \div 1000 IN
    Dec(secs \div 3600) \o <<":">> \o Pad(Dec((secs % 3600) \div 60), 2) \o <<":">>
        \o Pad(Dec(secs % 60), 2)

RECURSIVE ExpectedLines(_, _)
ExpectedLines(segs, i) ==
    IF i > Len(segs) THEN <<>>
    ELSE <<Chr("[")>> \o Chars(ElapsedHMS(Get(segs[i], "start").n))
            \o <<Chr("]"), Chr(" "), Chr(Get(segs[i], "text").s), Chr("\n")>>
            \o ExpectedLines(segs, i + 1)

\* C9: the assembled document is the Filename:/Date: header, a blank line, and one line
\* [H:MM:SS] text per segment, in segment order.
C9_AssembledDocument ==
    res.done =>
        /\ res.a.err = ""
        /\ res.a.text = Text(<<Chr("Filename: ")>> \o Chars(arg.base_name) \o <<Chr("\n"), Chr("Date: ")>>
                               \o Chars(res.date) \o <<Chr("\n"), Chr("\n")>>
                               \o ExpectedLines(arg.segments, 1))

\* C10: a Transcription that a call with skip_cache=false returns for an input was
\* produced by transcribing that input (or was in the cache before any run of the
\* program): no two inputs share a cache entry.
C10_OwnCacheEntry ==
    (returned.some /\ ~skip_cache /\ HasKey(returned.v, "segments")) =>
        returned.src \in {<<>>, args.input_file}

=============================================================================
